---- MODULE Spec2Model ----
(***************************************************************************)
(* react-env-secrets: the resolver getAllEnvVars, the hooks useEnv and     *)
(* useEnvVar, clearEnvCache and listEnvVars of src/src/index.ts.           *)
(*                                                                         *)
(* Strings that the code inspects character by character (keys, prefixes)  *)
(* are sequences of one-character strings; values are TLA+ strings.        *)
(* process.env is a sequence of <<key, value>> entries in the order        *)
(* Object.keys enumerates them.  An EnvVars object is a function from keys *)
(* to values.                                                              *)
(***************************************************************************)
EXTENDS Integers, Sequences, FiniteSets, TLC

VARIABLES
    env,        \* process.env: sequence of <<key, value>> entries
    hasWindow,  \* typeof window !== 'undefined'
    nodeEnv,    \* process.env.NODE_ENV
    scanFails,  \* enumerating the keys of process.env throws
    envCache,   \* module variable envCache (Null or an EnvVars)
    isLoading,  \* module variable isLoading
    mounted,    \* mounted[c]: component c has rendered and is mounted
    hook,       \* hook[c]: the hook c calls and its arguments
    envVars,    \* envVars[c]: the useState cell envVars of c
    error,      \* error[c]: the useState cell error of c
    effectPending, \* effectPending[c]: the effect of c's last render has not run yet
    ret,        \* ret[c]: content of the mapping useEnv returned to c at its last render
    retVar,     \* retVar[c]: what useEnvVar returned to c at its last render
    logged,     \* what the last operation wrote to the console
    listed,     \* what the last listEnvVars call returned
    thrown,     \* the exception the last operation propagated to its caller
    lastOp,     \* the last operation and the component it ran for
    clearedSince,   \* components that have not rendered since the last clearEnvCache
    calls,      \* calls[c]: consecutive renders of c (at most 2 counted) that found envCache
                \* populated, with no clearEnvCache and no change of process.env between
    staleEnv,   \* process.env changed since a hook last resolved it
    freshDue,   \* clearEnvCache ran and no useEnv call has followed it yet
    inFlight,   \* components whose pass has set isLoading and not yet reset it
    ops,        \* number of operations performed
    resolved    \* resolver specification: the last call of getAllEnvVars and its result

vars == <<env, hasWindow, nodeEnv, scanFails, envCache, isLoading, mounted, hook,
          envVars, error, effectPending, ret, retVar, logged, listed, thrown,
          lastOp, clearedSince, calls, staleEnv, freshDue, inFlight, ops, resolved>>

(***************************************************************************)
(* Bounds.                                                                 *)
(***************************************************************************)
MaxEnvLen == 3      \* entries of process.env in the resolver specification
MaxOps == 5         \* operations per behaviour of the hook specification

(***************************************************************************)
(* Strings.                                                                *)
(***************************************************************************)
REACT_APP_ == <<"R","E","A","C","T","_","A","P","P","_">>
NEXT_PUBLIC_ == <<"N","E","X","T","_","P","U","B","L","I","C","_">>
VITE_ == <<"V","I","T","E","_">>
PUBLIC_ == <<"P","U","B","L","I","C","_">>
MY_ == <<"M","Y","_">>
EmptyString == <<>>

\* prefix / customPrefix not given
UndefinedPrefix == <<"undefined">>
\* a value that is undefined (distinct from every string value used)
Undefined == "<undefined>"
\* envCache = null
Null == (<<"null">> :> "null")
\* a reference to the process.env object itself (not a copy of it)
ProcessEnvRef == (<<"process.env">> :> "ref")
EmptyObject == [k \in {} |-> ""]

\* String.prototype.startsWith
StartsWith(k, prefix) ==
    /\ Len(prefix) <= Len(k)
    /\ SubSeq(k, 1, Len(prefix)) = prefix

\* String.prototype.slice(n)
Slice(k, n) == SubSeq(k, n + 1, Len(k))

\* the property name __proto__ of a plain object: an accessor inherited from
\* Object.prototype
ProtoKey == <<"_","_","p","r","o","t","o","_","_">>

\* the names a plain object inherits from Object.prototype
ObjectPrototypeNames ==
    { ProtoKey,
      <<"c","o","n","s","t","r","u","c","t","o","r">>,
      <<"t","o","S","t","r","i","n","g">>,
      <<"t","o","L","o","c","a","l","e","S","t","r","i","n","g">>,
      <<"v","a","l","u","e","O","f">>,
      <<"h","a","s","O","w","n","P","r","o","p","e","r","t","y">>,
      <<"i","s","P","r","o","t","o","t","y","p","e","O","f">>,
      <<"p","r","o","p","e","r","t","y","I","s","E","n","u","m","e","r","a","b","l","e">>,
      <<"_","_","d","e","f","i","n","e","G","e","t","t","e","r","_","_">>,
      <<"_","_","d","e","f","i","n","e","S","e","t","t","e","r","_","_">>,
      <<"_","_","l","o","o","k","u","p","G","e","t","t","e","r","_","_">>,
      <<"_","_","l","o","o","k","u","p","S","e","t","t","e","r","_","_">> }

\* what reading an inherited name gives: a function or object, neither
\* undefined nor a string
Inherited == "<inherited>"

\* obj[key] = value with a string value; when obj has no own property
\* __proto__, assigning a string to __proto__ runs the inherited setter, which
\* ignores it
Put(obj, key, value) ==
    IF key = ProtoKey /\ key \notin DOMAIN obj THEN obj
    ELSE [x \in DOMAIN obj \cup {key} |-> IF x = key THEN value ELSE obj[x]]

\* obj[key]: an own property, else a name inherited from Object.prototype,
\* else undefined
Get(obj, key) ==
    IF key \in DOMAIN obj THEN obj[key]
    ELSE IF key \in ObjectPrototypeNames THEN Inherited
    ELSE Undefined

(***************************************************************************)
(* getAllEnvVars.                                                          *)
(***************************************************************************)
DefaultPrefixes == <<REACT_APP_, NEXT_PUBLIC_, VITE_, PUBLIC_>>

\* const prefixes = customPrefix ? [customPrefix] : [...]; '' is falsy
\* Prefixes with the custom prefix added in front of the defaults
PrefixesWithDefaults(customPrefix) ==
    IF customPrefix # UndefinedPrefix /\ customPrefix # EmptyString
    THEN <<customPrefix>> \o DefaultPrefixes
    ELSE DefaultPrefixes

Prefixes(customPrefix) ==
    IF customPrefix # UndefinedPrefix /\ customPrefix # EmptyString
    THEN <<customPrefix>>
    ELSE DefaultPrefixes

\* HasValidPrefix without the prefix test: every key is let through
HasValidPrefixAlways(prefixes, key) == TRUE

\* prefixes.some(prefix => key.startsWith(prefix))
HasValidPrefix(prefixes, key) ==
    \E i \in 1..Len(prefixes) : StartsWith(key, prefixes[i])

\* prefixes.reduce((k, prefix) => k.startsWith(prefix) ? k.slice(prefix.length) : k, key)
RECURSIVE ReduceFrom(_, _, _)
ReduceFrom(prefixes, i, k) ==
    IF i > Len(prefixes) THEN k
    ELSE ReduceFrom(prefixes, i + 1,
                    IF StartsWith(k, prefixes[i]) THEN Slice(k, Len(prefixes[i])) ELSE k)

CleanKey(prefixes, key) == ReduceFrom(prefixes, 1, key)

\* process.env as an object: its keys bound to their values
EnvObject(m) ==
    [k \in {m[i][1] : i \in 1..Len(m)} |->
        m[CHOOSE i \in 1..Len(m) : m[i][1] = k][2]]

\* ForEachKey without "envVars[key] = value": the original key is not kept
RECURSIVE ForEachKeyCleanOnly(_, _, _, _)
ForEachKeyCleanOnly(m, prefixes, i, acc) ==
    IF i > Len(m) THEN acc
    ELSE LET key == m[i][1]
             value == m[i][2]
         IN  IF value # Undefined /\ HasValidPrefix(prefixes, key)
             THEN ForEachKeyCleanOnly(m, prefixes, i + 1,
                                      Put(acc, CleanKey(prefixes, key), value))
             ELSE ForEachKeyCleanOnly(m, prefixes, i + 1, acc)

\* the body of Object.keys(process.env).forEach(key => ...), entries i..Len(m)
RECURSIVE ForEachKey(_, _, _, _)
ForEachKey(m, prefixes, i, acc) ==
    IF i > Len(m) THEN acc
    ELSE LET key == m[i][1]
             value == m[i][2]
         IN  IF value # Undefined /\ HasValidPrefix(prefixes, key)
             THEN ForEachKey(m, prefixes, i + 1,
                             Put(Put(acc, CleanKey(prefixes, key), value), key, value))
             ELSE ForEachKey(m, prefixes, i + 1, acc)

\* getAllEnvVars(customPrefix), as the content of the object it returns
GetAllEnvVars(window, m, customPrefix) ==
    IF ~window THEN EnvObject(m)
    ELSE ForEachKey(m, Prefixes(customPrefix), 1, EmptyObject)

\* getAllEnvVars throws: Object.keys(process.env) is only reached with a window
GetAllEnvVarsThrows(window, fails) == window /\ fails

\* the decimal digits, and the largest array index plus one (2^32 - 1)
Digits == {"0", "1", "2", "3", "4", "5", "6", "7", "8", "9"}
DigitOrder == <<"0", "1", "2", "3", "4", "5", "6", "7", "8", "9">>
IndexLimit == <<"4","2","9","4","9","6","7","2","9","5">>

DigitValue(ch) == CHOOSE n \in 1..10 : DigitOrder[n] = ch

\* a < b for canonical numeric strings
IndexLess(a, b) ==
    \/ Len(a) < Len(b)
    \/ /\ Len(a) = Len(b)
       /\ \E i \in 1..Len(a) :
             /\ SubSeq(a, 1, i - 1) = SubSeq(b, 1, i - 1)
             /\ DigitValue(a[i]) < DigitValue(b[i])

\* key is an array index: a canonical numeric string below 2^32 - 1
IsArrayIndex(key) ==
    /\ Len(key) >= 1
    /\ \A i \in 1..Len(key) : key[i] \in Digits
    /\ Len(key) = 1 \/ key[1] # "0"
    /\ IndexLess(key, IndexLimit)

\* Object.keys(obj) of the object getAllEnvVars returns, after obj[key] = value:
\* array indices first, in ascending order, then the other names in insertion
\* order; __proto__ is not added
AppendNew(seq, key) ==
    IF key = ProtoKey \/ \E j \in 1..Len(seq) : seq[j] = key THEN seq
    ELSE IF IsArrayIndex(key)
         THEN LET n == Cardinality({j \in 1..Len(seq) :
                                       IsArrayIndex(seq[j]) /\ IndexLess(seq[j], key)})
              IN  SubSeq(seq, 1, n) \o <<key>> \o SubSeq(seq, n + 1, Len(seq))
         ELSE Append(seq, key)

RECURSIVE ForEachKeyOrder(_, _, _, _)
ForEachKeyOrder(m, prefixes, i, acc) ==
    IF i > Len(m) THEN acc
    ELSE LET key == m[i][1]
             value == m[i][2]
         IN  IF value # Undefined /\ HasValidPrefix(prefixes, key)
             THEN ForEachKeyOrder(m, prefixes, i + 1,
                                  AppendNew(AppendNew(acc, CleanKey(prefixes, key)), key))
             ELSE ForEachKeyOrder(m, prefixes, i + 1, acc)

\* Object.keys(vars) throws: vars is process.env itself without a window
ObjectKeysThrows(window, fails) == ~window /\ fails

ObjectKeys(window, m, customPrefix) ==
    IF ~window THEN [i \in 1..Len(m) |-> m[i][1]]
    ELSE ForEachKeyOrder(m, Prefixes(customPrefix), 1, <<>>)

(***************************************************************************)
(* useEnv: the fallback merge, the required check and the diagnostics.     *)
(***************************************************************************)
\* ApplyFallbacksOver with an empty loop body: no fallback is merged
ApplyFallbacksOverNone(varsWithFallbacks, fallbacks, keys) == varsWithFallbacks

\* Object.keys(fallbacks).forEach(key => { if (v[key] === undefined) v[key] = fallbacks[key] })
RECURSIVE ApplyFallbacksOver(_, _, _)
ApplyFallbacksOver(varsWithFallbacks, fallbacks, keys) ==
    IF keys = {} THEN varsWithFallbacks
    ELSE LET key == CHOOSE k \in keys : TRUE
         IN  ApplyFallbacksOver(
                IF Get(varsWithFallbacks, key) = Undefined
                THEN Put(varsWithFallbacks, key, fallbacks[key])
                ELSE varsWithFallbacks,
                fallbacks, keys \ {key})

\* ApplyFallbacks without the "=== undefined" test: a fallback always wins
ApplyFallbacksAlways(v, fallbacks) ==
    [k \in DOMAIN v \cup DOMAIN fallbacks |->
        IF k \in DOMAIN fallbacks THEN fallbacks[k] ELSE v[k]]

ApplyFallbacks(v, fallbacks) == ApplyFallbacksOver(v, fallbacks, DOMAIN fallbacks)

\* IsMissing without the test for the empty string
IsMissingUndefinedOnly(v, key) == Get(v, key) = Undefined

\* required.filter(key => v[key] === undefined || v[key] === '')
IsMissing(v, key) == Get(v, key) = Undefined \/ Get(v, key) = ""

MissingVars(v, required) == SelectSeq(required, LAMBDA key : IsMissing(v, key))

\* the value of the error cell: null, or the message with the parts it is built from
NoError == [kind |-> "null", keys |-> <<>>, hint |-> <<>>]
DefaultHint == <<"REACT_APP_/NEXT_PUBLIC_/VITE_">>

\* const prefixHint = prefix || 'REACT_APP_/NEXT_PUBLIC_/VITE_'
PrefixHint(prefix) ==
    IF prefix # UndefinedPrefix /\ prefix # EmptyString THEN prefix ELSE DefaultHint

\* `Missing required environment variables: ${missingVars.join(', ')}. Make sure ...`
MissingError(missingVars, prefix) ==
    [kind |-> "missing", keys |-> missingVars, hint |-> PrefixHint(prefix)]

\* `Failed to load environment variables: ${err}`
FailedError == [kind |-> "failed", keys |-> <<>>, hint |-> <<>>]

\* the argument of setError in the try block
RequiredCheck(v, required, prefix) ==
    IF Len(MissingVars(v, required)) > 0
    THEN MissingError(MissingVars(v, required), prefix)
    ELSE NoError

\* ShouldLogError without the NODE_ENV test
ShouldLogErrorAlways(err, mode) == err # NoError

\* if (error && process.env.NODE_ENV === 'development') console.error(...)
ShouldLogError(err, mode) == err # NoError /\ mode = "development"

\* the reset placed at the end of the try block instead of a finally block
IsLoadingAfterPassNoFinally(threw) == threw

\* finally { isLoading = false }: the value of isLoading when the pass is over
IsLoadingAfterPass(threw) == FALSE

\* ShouldResolve without the "!isLoading" test
ShouldResolveIgnoringLoading(cache, loading) == cache = Null

\* ShouldResolve without the "!envCache" test
ShouldResolveIgnoringCache(cache, loading) == ~loading

\* the guard of the effect body
ShouldResolve(cache, loading) == cache = Null /\ ~loading

\* { ...vars } enumerates the keys of vars, which is process.env without a window
SpreadThrows(window, fails) == ~window /\ fails

\* envVars[key] || fallback: the empty string falls through to the fallback
LogicalOr(value, fallback) == IF value = Undefined \/ value = "" THEN fallback ELSE value

\* envVars[key] ?? fallback
NullishCoalesce(value, fallback) == IF value = Undefined THEN fallback ELSE value

\* the content of the object a state cell refers to
Deref(obj, m) == IF obj = ProcessEnvRef THEN EnvObject(m) ELSE obj

(***************************************************************************)
(* Inputs.                                                                 *)
(***************************************************************************)
X == <<"X">>
Y == <<"Y">>
S == <<"S">>
REACT_APP_X == REACT_APP_ \o X
VITE_X == VITE_ \o X
REACT_APP_VITE_X == REACT_APP_ \o VITE_ \o X
PUBLIC_REACT_APP_X == PUBLIC_ \o REACT_APP_ \o X
MY_X == MY_ \o X

Comps == {1, 2}

\* process.env of the hook specification
AmbientMaps ==
    { <<>>,
      << <<REACT_APP_X, "a">>, <<S, "s">> >>,
      << <<REACT_APP_X, "">>, <<MY_X, "c">>, <<S, "s">>, <<X, Undefined>> >> }

\* process.env of the resolver specification: entries with distinct keys
ResolverKeys == {REACT_APP_X, VITE_X, REACT_APP_VITE_X, PUBLIC_REACT_APP_X, MY_X, X}
ResolverValues == {"a", "", Undefined}
ResolverPrefixes == {UndefinedPrefix, EmptyString, MY_, VITE_}

KeysOf(m) == {m[i][1] : i \in 1..Len(m)}

RECURSIVE EnvsOfLen(_)
EnvsOfLen(n) ==
    IF n = 0 THEN {<<>>}
    ELSE UNION { {Append(m, <<k, v>>) : k \in ResolverKeys \ KeysOf(m), v \in ResolverValues} :
                 m \in EnvsOfLen(n - 1) }

ResolverEnvs(maxLen) == UNION {EnvsOfLen(n) : n \in 0..maxLen}

\* the calls a component can make: useEnv(options) or useEnvVar(key, fallback).
\* required / fallbacks hold the value after the destructuring defaults;
\* requiredGiven / fallbacksGiven tell whether the caller passed them.
NoHook ==
    [name |-> "none", prefix |-> UndefinedPrefix,
     required |-> <<>>, requiredGiven |-> FALSE,
     fallbacks |-> EmptyObject, fallbacksGiven |-> FALSE,
     key |-> <<>>, fallback |-> Undefined]

UseEnvCalls ==
    { [name |-> "useEnv", prefix |-> p,
       required |-> r[1], requiredGiven |-> r[2],
       fallbacks |-> f[1], fallbacksGiven |-> f[2],
       key |-> <<>>, fallback |-> Undefined] :
         p \in {UndefinedPrefix, MY_},
         r \in {<< <<>>, FALSE >>, << <<Y, X>>, TRUE >>},
         f \in {<< EmptyObject, FALSE >>, << (X :> "f"), TRUE >>} }

\* useEnvVar calls useEnv() without options
UseEnvVarCalls ==
    { [NoHook EXCEPT !.name = "useEnvVar", !.key = X, !.fallback = fb] :
         fb \in {Undefined, "f"} }

Calls == UseEnvCalls \cup UseEnvVarCalls

NoCall == [prefix |-> UndefinedPrefix, out |-> Null, keys |-> <<>>]

(***************************************************************************)
(* Initial state: the module has been loaded, nothing is mounted.          *)
(***************************************************************************)
InitCommon ==
    /\ envCache = Null
    /\ isLoading = FALSE
    /\ mounted = [c \in Comps |-> FALSE]
    /\ hook = [c \in Comps |-> NoHook]
    /\ envVars = [c \in Comps |-> EmptyObject]
    /\ error = [c \in Comps |-> NoError]
    /\ effectPending = [c \in Comps |-> FALSE]
    /\ ret = [c \in Comps |-> EmptyObject]
    /\ retVar = [c \in Comps |-> Undefined]
    /\ logged = "none"
    /\ listed = <<>>
    /\ thrown = "none"
    /\ lastOp = <<"init", 0>>
    /\ clearedSince = {}
    /\ calls = [c \in Comps |-> 0]
    /\ staleEnv = FALSE
    /\ freshDue = FALSE
    /\ inFlight = {}
    /\ ops = 0
    /\ resolved = NoCall

Init ==
    /\ env \in AmbientMaps
    /\ hasWindow \in BOOLEAN
    /\ nodeEnv \in {"development", "production"}
    /\ scanFails \in BOOLEAN
    /\ InitCommon

(***************************************************************************)
(* useEnv.                                                                 *)
(***************************************************************************)
\* the useState initializer: if (envCache) return envCache; return getAllEnvVars(prefix)
InitialEnvVars(cache, window, m, prefix) ==
    IF cache # Null THEN cache
    ELSE IF ~window THEN ProcessEnvRef
    ELSE GetAllEnvVars(window, m, prefix)

InitialThrows(cache, window, fails) ==
    cache = Null /\ GetAllEnvVarsThrows(window, fails)

\* return envVars[key] ?? fallback  (useEnvVar), nothing for useEnv
UseEnvVarResult(h, obj) ==
    IF h.name = "useEnvVar" THEN NullishCoalesce(Get(obj, h.key), h.fallback)
    ELSE Undefined

\* First render of component c calling h: both useState cells are initialised,
\* the effect is scheduled, the error cell is null so nothing is logged.  When
\* the initializer throws, the render throws and the component is not mounted.
Mount(c, h) ==
    /\ ops < MaxOps
    /\ ~mounted[c]
    /\ \A d \in Comps : d < c => mounted[d]   \* components are numbered as they mount
    /\ ops' = ops + 1
    /\ lastOp' = <<"mount", c>>
    /\ UNCHANGED inFlight
    /\ logged' = "none"
    /\ freshDue' = FALSE
    /\ IF InitialThrows(envCache, hasWindow, scanFails)
       THEN /\ thrown' = "useEnv"
            /\ UNCHANGED <<mounted, hook, envVars, error, effectPending, ret, retVar,
                           clearedSince, calls, staleEnv>>
       ELSE /\ thrown' = "none"
            /\ mounted' = [mounted EXCEPT ![c] = TRUE]
            /\ hook' = [hook EXCEPT ![c] = h]
            /\ envVars' = [envVars EXCEPT
                    ![c] = InitialEnvVars(envCache, hasWindow, env, h.prefix)]
            /\ error' = [error EXCEPT ![c] = NoError]
            /\ effectPending' = [effectPending EXCEPT ![c] = TRUE]
            /\ ret' = [ret EXCEPT ![c] = Deref(envVars'[c], env)]
            /\ retVar' = [retVar EXCEPT ![c] = UseEnvVarResult(h, ret'[c])]
            /\ clearedSince' = clearedSince \ {c}
            /\ calls' = [calls EXCEPT ![c] = IF envCache # Null THEN 1 ELSE 0]
            /\ staleEnv' = (staleEnv /\ envCache # Null)
    /\ UNCHANGED <<env, hasWindow, nodeEnv, scanFails, envCache, isLoading, listed, resolved>>

\* The dependency list [prefix, required, fallbacks] differs from the previous
\* render's whenever a default [] or {} was created by this render; a caller
\* that passes both may pass the same objects again (depsChanged = FALSE).
DepsMayStay(h) == h.requiredGiven /\ h.fallbacksGiven

\* A later render of c: the state cells are returned as they are, the error
\* is logged in development, the effect is scheduled when the deps changed.
Render(c, depsChanged) ==
    /\ ops < MaxOps
    /\ mounted[c]
    /\ ~effectPending[c]
    /\ depsChanged \/ DepsMayStay(hook[c])
    /\ ops' = ops + 1
    /\ lastOp' = <<"render", c>>
    /\ UNCHANGED inFlight
    /\ logged' = IF ShouldLogError(error[c], nodeEnv) THEN "error" ELSE "none"
    /\ thrown' = "none"
    /\ freshDue' = FALSE
    /\ effectPending' = [effectPending EXCEPT ![c] = depsChanged]
    /\ ret' = [ret EXCEPT ![c] = Deref(envVars[c], env)]
    /\ retVar' = [retVar EXCEPT ![c] = UseEnvVarResult(hook[c], ret'[c])]
    /\ clearedSince' = clearedSince \ {c}
    /\ calls' = [calls EXCEPT ![c] = IF envCache = Null THEN 0
                                     ELSE IF calls[c] >= 1 THEN 2 ELSE 1]
    /\ UNCHANGED <<env, hasWindow, nodeEnv, scanFails, envCache, isLoading, mounted,
                   hook, envVars, error, listed, staleEnv, resolved>>

\* The effect of c's last render (the deferred pass).  It runs to completion:
\* isLoading is set on entry and reset by the finally block.
UseEffect(c) ==
    /\ ops < MaxOps
    /\ mounted[c]
    /\ effectPending[c]
    /\ ops' = ops + 1
    /\ lastOp' = <<"effect", c>>
    /\ UNCHANGED inFlight
    /\ logged' = "none"
    /\ thrown' = "none"
    /\ effectPending' = [effectPending EXCEPT ![c] = FALSE]
    /\ IF ShouldResolve(envCache, isLoading)
       THEN IF GetAllEnvVarsThrows(hasWindow, scanFails) \/ SpreadThrows(hasWindow, scanFails)
            THEN /\ error' = [error EXCEPT ![c] = FailedError]
                 /\ isLoading' = IsLoadingAfterPass(TRUE)
                 /\ UNCHANGED <<envCache, envVars, staleEnv>>
            ELSE LET v == GetAllEnvVars(hasWindow, env, hook[c].prefix)
                     varsWithFallbacks == ApplyFallbacks(v, hook[c].fallbacks)
                 IN  /\ error' = [error EXCEPT ![c] =
                            RequiredCheck(varsWithFallbacks, hook[c].required, hook[c].prefix)]
                     /\ envCache' = varsWithFallbacks
                     /\ envVars' = [envVars EXCEPT ![c] = varsWithFallbacks]
                     /\ isLoading' = IsLoadingAfterPass(FALSE)
                     /\ staleEnv' = FALSE
       ELSE UNCHANGED <<envCache, envVars, error, isLoading, staleEnv>>
    /\ UNCHANGED <<env, hasWindow, nodeEnv, scanFails, mounted, hook, ret, retVar,
                   listed, clearedSince, calls, freshDue, resolved>>

(***************************************************************************)
(* clearEnvCache, listEnvVars.                                             *)
(***************************************************************************)
ClearEnvCache ==
    /\ ops < MaxOps
    /\ ops' = ops + 1
    /\ lastOp' = <<"clearEnvCache", 0>>
    /\ UNCHANGED inFlight
    /\ envCache' = Null
    /\ logged' = "none"
    /\ thrown' = "none"
    /\ clearedSince' = Comps
    /\ calls' = [c \in Comps |-> 0]
    /\ freshDue' = TRUE
    /\ UNCHANGED <<env, hasWindow, nodeEnv, scanFails, isLoading, mounted, hook, envVars,
                   error, effectPending, ret, retVar, listed, staleEnv, resolved>>

\* listEnvVars that stores what it resolved in envCache
ListEnvVarsPopulating ==
    /\ ops < MaxOps
    /\ ops' = ops + 1
    /\ lastOp' = <<"listEnvVars", 0>>
    /\ UNCHANGED inFlight
    /\ thrown' = "none"
    /\ logged' = IF nodeEnv = "development" THEN "log" ELSE "none"
    /\ listed' = IF nodeEnv = "development"
                 THEN ObjectKeys(hasWindow, env, UndefinedPrefix) ELSE <<>>
    /\ envCache' = IF nodeEnv = "development"
                   THEN GetAllEnvVars(hasWindow, env, UndefinedPrefix) ELSE envCache
    /\ UNCHANGED <<env, hasWindow, nodeEnv, scanFails, isLoading, mounted, hook,
                   envVars, error, effectPending, ret, retVar, clearedSince, calls,
                   staleEnv, freshDue, resolved>>

ListEnvVars ==
    /\ ops < MaxOps
    /\ ops' = ops + 1
    /\ lastOp' = <<"listEnvVars", 0>>
    /\ UNCHANGED inFlight
    /\ IF nodeEnv = "development"
       THEN IF GetAllEnvVarsThrows(hasWindow, scanFails)
               \/ ObjectKeysThrows(hasWindow, scanFails)
            THEN /\ thrown' = "listEnvVars"
                 /\ logged' = "none"
                 /\ UNCHANGED listed
            ELSE /\ thrown' = "none"
                 /\ logged' = "log"
                 /\ listed' = ObjectKeys(hasWindow, env, UndefinedPrefix)
       ELSE /\ thrown' = "none"
            /\ logged' = "none"
            /\ listed' = <<>>
    /\ UNCHANGED <<env, hasWindow, nodeEnv, scanFails, envCache, isLoading, mounted, hook,
                   envVars, error, effectPending, ret, retVar, clearedSince, calls,
                   staleEnv, freshDue, resolved>>

(***************************************************************************)
(* The host: process.env is replaced, or starts / stops throwing when its  *)
(* keys are enumerated.                                                    *)
(***************************************************************************)
\* replaced = FALSE: the host changes the object process.env in place, and a
\* state cell that refers to it shows the change.  replaced = TRUE: the host
\* assigns a new object to process.env, with new content or with the content
\* it had, and such a cell keeps the old object; when no cell refers to
\* process.env the two are the same step, and an assignment of the same
\* content changes nothing.
SetProcessEnv(m, replaced) ==
    /\ ops < MaxOps
    /\ m # env \/ replaced
    /\ replaced => \E c \in Comps : envVars[c] = ProcessEnvRef
    /\ envVars' = [c \in Comps |->
                      IF replaced /\ envVars[c] = ProcessEnvRef
                      THEN EnvObject(env) ELSE envVars[c]]
    /\ ops' = ops + 1
    /\ lastOp' = <<"env", 0>>
    /\ UNCHANGED inFlight
    /\ env' = m
    /\ logged' = "none"
    /\ thrown' = "none"
    /\ calls' = IF m # env THEN [c \in Comps |-> 0] ELSE calls
    /\ staleEnv' = (staleEnv \/ m # env)
    /\ UNCHANGED <<hasWindow, nodeEnv, scanFails, envCache, isLoading, mounted, hook,
                   error, effectPending, ret, retVar, listed, clearedSince,
                   freshDue, resolved>>

SetScanFails(b) ==
    /\ ops < MaxOps
    /\ b # scanFails
    /\ ops' = ops + 1
    /\ lastOp' = <<"env", 0>>
    /\ UNCHANGED inFlight
    /\ scanFails' = b
    /\ logged' = "none"
    /\ thrown' = "none"
    /\ UNCHANGED <<env, hasWindow, nodeEnv, envCache, isLoading, mounted, hook, envVars,
                   error, effectPending, ret, retVar, listed, clearedSince, calls,
                   staleEnv, freshDue, resolved>>

Next ==
    \/ \E c \in Comps, h \in Calls : Mount(c, h)
    \/ \E c \in Comps, depsChanged \in BOOLEAN : Render(c, depsChanged)
    \/ \E c \in Comps : UseEffect(c)
    \/ ClearEnvCache
    \/ ListEnvVars
    \/ \E m \in AmbientMaps, replaced \in BOOLEAN : SetProcessEnv(m, replaced)
    \/ \E b \in BOOLEAN : SetScanFails(b)

Spec == Init /\ [][Next]_vars

(***************************************************************************)
(* Resolver specification: getAllEnvVars applied to every bounded          *)
(* process.env, with and without a window, for every prefix argument.      *)
(***************************************************************************)
InitResolver ==
    /\ env \in ResolverEnvs(MaxEnvLen)
    /\ hasWindow \in BOOLEAN
    /\ nodeEnv = "development"
    /\ scanFails = FALSE
    /\ InitCommon

CallGetAllEnvVars(customPrefix) ==
    /\ resolved' = [prefix |-> customPrefix,
                    out |-> GetAllEnvVars(hasWindow, env, customPrefix),
                    keys |-> ObjectKeys(hasWindow, env, customPrefix)]
    /\ lastOp' = <<"getAllEnvVars", 0>>
    /\ UNCHANGED inFlight
    /\ UNCHANGED <<env, hasWindow, nodeEnv, scanFails, envCache, isLoading, mounted, hook,
                   envVars, error, effectPending, ret, retVar, logged, listed, thrown,
                   clearedSince, calls, staleEnv, freshDue, ops>>

NextResolver == \E p \in ResolverPrefixes : CallGetAllEnvVars(p)

SpecResolver == InitResolver /\ [][NextResolver]_vars

(***************************************************************************)
(* Re-entrant specification: the deferred pass in two steps, its entry     *)
(* (the guard and isLoading = true) and the rest (the try block and the    *)
(* finally block), with other calls arriving between the two.              *)
(***************************************************************************)
\* if (!envCache && !isLoading) { isLoading = true
PassBegin(c) ==
    /\ ops < MaxOps
    /\ mounted[c]
    /\ effectPending[c]
    /\ c \notin inFlight
    /\ ops' = ops + 1
    /\ lastOp' = <<"effect-begin", c>>
    /\ logged' = "none"
    /\ thrown' = "none"
    /\ effectPending' = [effectPending EXCEPT ![c] = FALSE]
    /\ IF ShouldResolve(envCache, isLoading)
       THEN /\ isLoading' = TRUE
            /\ inFlight' = inFlight \cup {c}
       ELSE UNCHANGED <<isLoading, inFlight>>
    /\ UNCHANGED <<env, hasWindow, nodeEnv, scanFails, envCache, mounted, hook, envVars,
                   error, ret, retVar, listed, clearedSince, calls, staleEnv, freshDue,
                   resolved>>

\* try { ... } catch (err) { ... } finally { isLoading = false }
PassEnd(c) ==
    /\ ops < MaxOps
    /\ c \in inFlight
    /\ ops' = ops + 1
    /\ lastOp' = <<"effect-end", c>>
    /\ logged' = "none"
    /\ thrown' = "none"
    /\ inFlight' = inFlight \ {c}
    /\ IF GetAllEnvVarsThrows(hasWindow, scanFails) \/ SpreadThrows(hasWindow, scanFails)
       THEN /\ error' = [error EXCEPT ![c] = FailedError]
            /\ isLoading' = IsLoadingAfterPass(TRUE)
            /\ UNCHANGED <<envCache, envVars, staleEnv>>
       ELSE LET v == GetAllEnvVars(hasWindow, env, hook[c].prefix)
                varsWithFallbacks == ApplyFallbacks(v, hook[c].fallbacks)
            IN  /\ error' = [error EXCEPT ![c] =
                       RequiredCheck(varsWithFallbacks, hook[c].required, hook[c].prefix)]
                /\ envCache' = varsWithFallbacks
                /\ envVars' = [envVars EXCEPT ![c] = varsWithFallbacks]
                /\ isLoading' = IsLoadingAfterPass(FALSE)
                /\ staleEnv' = FALSE
    /\ UNCHANGED <<env, hasWindow, nodeEnv, scanFails, mounted, hook, effectPending, ret,
                   retVar, listed, clearedSince, calls, freshDue, resolved>>

NextReentrant ==
    \/ \E c \in Comps, h \in Calls : Mount(c, h)
    \/ \E c \in Comps, depsChanged \in BOOLEAN : c \notin inFlight /\ Render(c, depsChanged)
    \/ \E c \in Comps : PassBegin(c)
    \/ \E c \in Comps : PassEnd(c)
    \/ ClearEnvCache
    \/ ListEnvVars
    \/ \E m \in AmbientMaps, replaced \in BOOLEAN : SetProcessEnv(m, replaced)
    \/ \E b \in BOOLEAN : SetScanFails(b)

SpecReentrant == Init /\ [][NextReentrant]_vars

(***************************************************************************)
(* Properties of getAllEnvVars (specification SpecResolver).               *)
(***************************************************************************)
ResolverCalled == lastOp = <<"getAllEnvVars", 0>>

\* the prefix set the call was made with, as the documentation states it:
\* the given prefix alone, or the four defaults when none (or '') is given
ActivePrefixes ==
    IF resolved.prefix \in {UndefinedPrefix, EmptyString}
    THEN <<REACT_APP_, NEXT_PUBLIC_, VITE_, PUBLIC_>>
    ELSE <<resolved.prefix>>

\* indices of the entries of process.env with a defined value whose key starts
\* with an active prefix
Matching ==
    {i \in 1..Len(env) :
        /\ env[i][2] # Undefined
        /\ \E j \in 1..Len(ActivePrefixes) :
              Len(ActivePrefixes[j]) <= Len(env[i][1])
              /\ \A n \in 1..Len(ActivePrefixes[j]) : env[i][1][n] = ActivePrefixes[j][n]}

\* the key with the first active prefix it starts with removed, nothing more
FirstPrefixOf(key) ==
    ActivePrefixes[CHOOSE j \in 1..Len(ActivePrefixes) :
        /\ StartsWith(key, ActivePrefixes[j])
        /\ \A n \in 1..(j - 1) : ~StartsWith(key, ActivePrefixes[n])]

StripFirst(key) == SubSeq(key, Len(FirstPrefixOf(key)) + 1, Len(key))

\* the cleaned key the resolver writes for the entry i
Cleaned(i) == CleanKey(ActivePrefixes, env[i][1])

\* the last matching entry that is written under the result key r
LastWriter(r) ==
    CHOOSE i \in Matching :
        /\ r \in {env[i][1], Cleaned(i)}
        /\ \A n \in Matching : r \in {env[n][1], Cleaned(n)} => n <= i

\* C1 as stated: in the filtered context the result holds every matching key
\* under its original and its stripped key, each bound to the value the key
\* has in process.env, and nothing else; without a window it equals process.env.
C1_Original ==
    ResolverCalled =>
        IF hasWindow
        THEN /\ DOMAIN resolved.out =
                    UNION {{env[i][1], Cleaned(i)} : i \in Matching}
             /\ \A i \in Matching :
                    /\ resolved.out[env[i][1]] = env[i][2]
                    /\ resolved.out[Cleaned(i)] = env[i][2]
        ELSE /\ DOMAIN resolved.out = {env[i][1] : i \in 1..Len(env)}
             /\ \A i \in 1..Len(env) : resolved.out[env[i][1]] = env[i][2]

\* C1 amended: in the filtered context the keys of the result are the matching
\* keys with a defined value and their cleaned keys, and each result key is
\* bound to the value of the last matching entry, in enumeration order, that
\* is written under it (so a key keeps its value unless a later matching key
\* shares its cleaned key or equals it); without a window the result equals
\* process.env.
C1_ResolverOutput ==
    ResolverCalled =>
        IF hasWindow
        THEN /\ DOMAIN resolved.out =
                    UNION {{env[i][1], Cleaned(i)} : i \in Matching}
             /\ \A r \in DOMAIN resolved.out :
                    resolved.out[r] = env[LastWriter(r)][2]
        ELSE /\ DOMAIN resolved.out = {env[i][1] : i \in 1..Len(env)}
             /\ \A i \in 1..Len(env) : resolved.out[env[i][1]] = env[i][2]

\* C1 witness: a filtered call on a process.env in which two matching keys
\* with different values are cleaned to the same key
C1_Witness ==
    /\ ResolverCalled
    /\ hasWindow
    /\ \E i, n \in Matching :
          /\ i < n
          /\ Cleaned(i) = Cleaned(n)
          /\ env[i][2] # env[n][2]
          /\ resolved.out[Cleaned(i)] = env[n][2]

\* C2 as stated: the cleaned key of every matching key is the key with the
\* first active prefix it starts with removed, and no further prefix removed,
\* so the keys of the filtered result are the matching keys and those.
C2_Original ==
    (ResolverCalled /\ hasWindow) =>
        DOMAIN resolved.out =
            UNION {{env[i][1], StripFirst(env[i][1])} : i \in Matching}

(***************************************************************************)
(* Properties of the hooks (specification Spec).                           *)
(***************************************************************************)
Rendered(c) == lastOp = <<"mount", c>> \/ lastOp = <<"render", c>>

\* the resolution for the call of component c, and the same with c's fallbacks
FreshFor(h) == GetAllEnvVars(hasWindow, env, h.prefix)
MergedFor(h) ==
    [k \in DOMAIN FreshFor(h) \cup DOMAIN h.fallbacks |->
        IF k \in DOMAIN FreshFor(h) /\ FreshFor(h)[k] # Undefined
        THEN FreshFor(h)[k]
        ELSE IF k \in DOMAIN h.fallbacks THEN h.fallbacks[k] ELSE Undefined]

\* C3 as stated: two renders of a component in succession, with no
\* clearEnvCache between them, return the same mapping (the first render and
\* the one after its deferred pass included).
C3_Original ==
    [][\A c \in Comps :
          (lastOp' = <<"render", c>> /\ c \notin clearedSince) => ret'[c] = ret[c]]_vars

\* C3 amended: two renders of a component in succession return the same
\* mapping when envCache was populated at the first of them and neither
\* clearEnvCache nor a change of process.env came between them.
C3_IdempotentOnceCached ==
    [][\A c \in Comps :
          (lastOp' = <<"render", c>> /\ calls[c] >= 1) => ret'[c] = ret[c]]_vars

\* C3 witness: a component that passed fallbacks has rendered twice in
\* succession under a populated cache and returned the merged mapping
C3_Witness ==
    \E c \in Comps :
        /\ lastOp = <<"render", c>>
        /\ calls[c] = 2
        /\ hook[c].fallbacksGiven
        /\ Get(ret[c], X) = "f"

\* C4: a pass that resolves binds every key that is defined in the resolution
\* to its value there, whatever the fallback table holds, and a key is bound
\* to something else only if it is undefined in the resolution and the value
\* is its fallback.
C4_FallbackNonOverride ==
    [][\A c \in Comps :
          (lastOp' = <<"effect", c>> /\ envCache = Null /\ envCache' # Null) =>
              /\ envVars'[c] = envCache'
              /\ \A k \in DOMAIN FreshFor(hook[c]) :
                    FreshFor(hook[c])[k] # Undefined => envCache'[k] = FreshFor(hook[c])[k]
              /\ \A k \in DOMAIN envCache' :
                    envCache'[k] # Get(FreshFor(hook[c]), k) =>
                        /\ Get(FreshFor(hook[c]), k) = Undefined
                        /\ k \in DOMAIN hook[c].fallbacks
                        /\ envCache'[k] = hook[c].fallbacks[k]]_vars

\* C4 witness: a pass of a component with a fallback for X has resolved a
\* process.env that defines X, and X kept the value of process.env
C4_Witness ==
    \E c \in Comps :
        /\ lastOp = <<"effect", c>>
        /\ envCache # Null
        /\ envVars[c] = envCache
        /\ X \in DOMAIN hook[c].fallbacks
        /\ Get(FreshFor(hook[c]), X) = "a"
        /\ Get(envCache, X) = "a"

\* the diagnostic the required check owes for the mapping v
ExpectedDiagnostic(v, h) ==
    LET missing == SelectSeq(h.required,
                             LAMBDA k : k \notin DOMAIN v \/ v[k] = Undefined \/ v[k] = "")
    IN  IF missing = <<>> THEN NoError
        ELSE [kind |-> "missing", keys |-> missing, hint |-> PrefixHint(h.prefix)]

\* C5 as stated: after the deferred pass of any caller (no scan failure), the
\* caller's diagnostic lists exactly the required keys that are missing or
\* empty in its post-fallback mapping, and is null when there are none,
\* whatever calls preceded it.
C5_Original ==
    [][\A c \in Comps :
          (lastOp' = <<"effect", c>> /\ ~scanFails) =>
              error'[c] = ExpectedDiagnostic(MergedFor(hook[c]), hook[c])]_vars

\* C6 as stated: the first useEnv call after clearEnvCache, under a
\* process.env that changed since it was last resolved, returns a fresh
\* resolution of the current process.env (with or without the fallbacks).
C6_Original ==
    [][\A c \in Comps :
          ( /\ lastOp' = <<"mount", c>> \/ lastOp' = <<"render", c>>
            /\ freshDue
            /\ staleEnv
            /\ thrown' = "none" ) =>
              ret'[c] \in {FreshFor(hook'[c]), MergedFor(hook'[c])}]_vars

\* C7: once envCache is populated, every step other than clearEnvCache leaves
\* it as it is, and clearEnvCache always sets it to null.
C7_CacheInvalidatedOnlyByClear ==
    [][ /\ (envCache # Null /\ lastOp' # <<"clearEnvCache", 0>>) => envCache' = envCache
        /\ lastOp' = <<"clearEnvCache", 0>> => envCache' = Null ]_vars

\* C7 witness: a deferred pass ran under a populated cache that differs from
\* what the pass would have resolved, and the cache is still populated
C7_Witness ==
    \E c \in Comps :
        /\ lastOp = <<"effect", c>>
        /\ ~scanFails
        /\ envCache # Null
        /\ envCache # MergedFor(hook[c])

\* C8: useEnvVar(key, fallback) returns the value bound to key in the mapping
\* its useEnv() call returns when that value is defined (the empty string
\* included), otherwise the fallback, otherwise undefined; and its pass
\* populates the cache as a useEnv() pass does: with the resolution for the
\* default prefixes, no fallback merged, no diagnostic.
C8_UseEnvVar ==
    [][\A c \in Comps :
          hook'[c].name = "useEnvVar" =>
              /\ retVar'[c] =
                    IF hook'[c].key \in DOMAIN ret'[c] /\ ret'[c][hook'[c].key] # Undefined
                    THEN ret'[c][hook'[c].key]
                    ELSE hook'[c].fallback
              /\ (lastOp' = <<"effect", c>> /\ envCache = Null /\ ~scanFails) =>
                    /\ envCache' = GetAllEnvVars(hasWindow, env, UndefinedPrefix)
                    /\ envVars'[c] = envCache'
                    /\ error'[c] = NoError]_vars

\* C8 witness: useEnvVar(X, "f") has returned the empty string bound to X
C8_Witness ==
    \E c \in Comps :
        /\ Rendered(c)
        /\ hook[c].name = "useEnvVar"
        /\ hook[c].fallback = "f"
        /\ Get(ret[c], X) = ""
        /\ retVar[c] = ""

\* C9 as stated: no useEnv call propagates a failure of the scan of
\* process.env; the call returns and its component is mounted.
C9_Original ==
    \A c \in Comps : lastOp = <<"mount", c>> => (thrown = "none" /\ mounted[c])

\* C10: a render writes the diagnostic to the console exactly when one is set
\* and the build is a development build, it never throws because of it and it
\* returns the content of its state cell either way; in any other build
\* nothing is written by any operation.
C10_DiagnosticOnlyInDevelopment ==
    /\ nodeEnv # "development" => logged = "none"
    /\ \A c \in Comps :
          lastOp = <<"render", c>> =>
              /\ logged = "error" <=> (error[c] # NoError /\ nodeEnv = "development")
              /\ thrown = "none"
              /\ ret[c] = IF envVars[c] = ProcessEnvRef THEN EnvObject(env) ELSE envVars[c]

\* C10 witness: a production build has rendered a component whose diagnostic
\* is set, without writing to the console
C10_Witness ==
    \E c \in Comps :
        /\ lastOp = <<"render", c>>
        /\ nodeEnv = "production"
        /\ error[c] # NoError
        /\ logged = "none"

\* the elements of a list
Elements(seq) == {seq[i] : i \in 1..Len(seq)}

\* C11: listEnvVars leaves envCache, isLoading and every component's state as
\* they are; in development a call that returns lists, without repetition,
\* the keys of a fresh resolution with the default prefixes, whatever
\* envCache holds; in any other build it returns the empty list and writes
\* nothing to the console.
C11_ListEnvVarsBypassesCache ==
    [][lastOp' = <<"listEnvVars", 0>> =>
          /\ UNCHANGED <<envCache, isLoading, envVars, error, effectPending, env>>
          /\ (nodeEnv = "development" /\ thrown' = "none") =>
                /\ Elements(listed') = DOMAIN GetAllEnvVars(hasWindow, env, UndefinedPrefix)
                /\ Len(listed') = Cardinality(Elements(listed'))
          /\ nodeEnv # "development" =>
                /\ listed' = <<>>
                /\ logged' = "none"
                /\ thrown' = "none"]_vars

\* C11 witness: in development listEnvVars has listed keys that differ from
\* the keys of the populated cache
C11_Witness ==
    /\ lastOp = <<"listEnvVars", 0>>
    /\ nodeEnv = "development"
    /\ envCache # Null
    /\ listed # <<>>
    /\ Elements(listed) # DOMAIN envCache

\* the prefixes some caller opted in to: the defaults and the custom prefixes
RecognizedPrefixes ==
    ({REACT_APP_, NEXT_PUBLIC_, VITE_, PUBLIC_}
        \cup {hook[c].prefix : c \in {d \in Comps : mounted[d]}})
    \ {UndefinedPrefix, EmptyString}

\* k with recognized prefixes removed from its front, one or more times
RECURSIVE StrippedForms(_)
StrippedForms(k) ==
    UNION { {Slice(k, Len(p))} \cup StrippedForms(Slice(k, Len(p))) :
            p \in {q \in RecognizedPrefixes : StartsWith(k, q)} }

\* the entries process.env can hold in this specification
AmbientEntries == UNION {{m[i] : i \in 1..Len(m)} : m \in AmbientMaps}

PrefixedKeys ==
    {e[1] : e \in {x \in AmbientEntries : \E p \in RecognizedPrefixes : StartsWith(x[1], p)}}

\* values of variables whose key carries no recognized prefix
UnprefixedValues ==
    {e[2] : e \in {x \in AmbientEntries :
                      /\ x[2] # Undefined
                      /\ \A p \in RecognizedPrefixes : ~StartsWith(x[1], p)}}

\* C12: with a window, every key of a mapping useEnv has returned is a
\* prefixed key of process.env, a stripped form of one, or a key of a
\* caller's fallback table, and no returned value (of useEnv or useEnvVar) is
\* the value of a variable whose key carries no recognized prefix.
C12_ClientSafety ==
    hasWindow =>
        LET prefixed == PrefixedKeys
            unprefixed == UnprefixedValues
        IN  \A c \in Comps :
                /\ \A k \in DOMAIN ret[c] :
                      /\ \/ \E d \in Comps : k \in DOMAIN hook[d].fallbacks
                         \/ k \in prefixed
                         \/ \E q \in prefixed : k \in StrippedForms(q)
                      /\ ret[c][k] \notin unprefixed
                /\ retVar[c] = Undefined \/ retVar[c] \notin unprefixed

\* C12 witness: with a window, a component has rendered a non-empty mapping
\* while process.env holds the unprefixed variable S
C12_Witness ==
    \E c \in Comps :
        /\ hasWindow
        /\ lastOp = <<"render", c>>
        /\ \E i \in 1..Len(env) : env[i] = <<S, "s">>
        /\ REACT_APP_X \in DOMAIN ret[c]

\* C13 as stated: after the deferred pass of any caller (no scan failure) the
\* cache and the caller's mapping are the fresh resolution for the caller's
\* prefix merged with the caller's fallbacks, whoever populated the cache.
C13_Original ==
    [][\A c \in Comps :
          (lastOp' = <<"effect", c>> /\ ~scanFails) =>
              /\ envCache' = MergedFor(hook[c])
              /\ envVars'[c] = MergedFor(hook[c])]_vars

\* C14: envCache changes only from a populated mapping to null, by
\* clearEnvCache, or from null to the complete mapping of one pass: the
\* resolution of process.env for that pass's prefix merged with that pass's
\* fallbacks; a populated mapping is never changed into another one.
C14_CacheReplacedWhole ==
    [][envCache' # envCache =>
          \/ /\ envCache' = Null
             /\ lastOp' = <<"clearEnvCache", 0>>
          \/ /\ envCache = Null
             /\ \E c \in Comps :
                   /\ lastOp' = <<"effect", c>>
                   /\ envCache' = MergedFor(hook[c])]_vars

\* C14 witness: a pass has stored a mapping that holds a merged fallback
\* beside resolved keys
C14_Witness ==
    \E c \in Comps :
        /\ lastOp = <<"effect", c>>
        /\ envCache # Null
        /\ Get(envCache, X) = "f"
        /\ Cardinality(DOMAIN envCache) >= 2

\* C16: when a pass resolves a key to the empty string, the mapping it stores
\* keeps the empty string whatever the caller's fallback for that key is, and
\* if the key is in the caller's required list the pass sets the
\* missing-variables error and names the key in it.
C16_EmptyStringIsMissing ==
    [][\A c \in Comps :
          (lastOp' = <<"effect", c>> /\ envCache = Null /\ envCache' # Null) =>
              \A k \in DOMAIN Deref(FreshFor(hook[c]), env) :
                  Deref(FreshFor(hook[c]), env)[k] = "" =>
                      /\ Get(envCache', k) = ""
                      /\ Get(envVars'[c], k) = ""
                      /\ k \in Elements(hook[c].required) =>
                            /\ error'[c].kind = "missing"
                            /\ k \in Elements(error'[c].keys)]_vars

\* C16 witness: a pass of a caller with a fallback for X and X in its
\* required list has resolved X to the empty string
C16_Witness ==
    \E c \in Comps :
        /\ lastOp = <<"effect", c>>
        /\ X \in DOMAIN hook[c].fallbacks
        /\ X \in Elements(hook[c].required)
        /\ X \in DOMAIN envCache
        /\ envCache[X] = ""
        /\ envCache = envVars[c]
        /\ X \in Elements(error[c].keys)

\* the keys a resolution for the single prefix p holds: every key of
\* process.env with a defined value that starts with p, and that key without p
KeysForPrefix(p) ==
    UNION {{env[i][1], Slice(env[i][1], Len(p))} :
           i \in {j \in 1..Len(env) : env[j][2] # Undefined /\ StartsWith(env[j][1], p)}}

\* C17 as stated: with a window, for every prefix the caller supplies, the
\* empty string included, the resolution holds the keys that prefix alone
\* selects.
C17_Original ==
    (ResolverCalled /\ hasWindow /\ resolved.prefix # UndefinedPrefix) =>
        DOMAIN resolved.out = KeysForPrefix(resolved.prefix)

\* C17: with a window, for every non-empty prefix the caller supplies, the
\* resolution holds the keys that prefix alone selects, so no key that only
\* a default prefix selects; the empty string counts as no prefix and the
\* four defaults select.
C17_CustomPrefixOverridesDefaults ==
    (ResolverCalled /\ hasWindow) =>
        /\ resolved.prefix \notin {UndefinedPrefix, EmptyString} =>
              DOMAIN resolved.out = KeysForPrefix(resolved.prefix)
        /\ resolved.prefix = EmptyString =>
              DOMAIN resolved.out =
                  UNION {{env[i][1], CleanKey(DefaultPrefixes, env[i][1])} :
                         i \in {j \in 1..Len(env) :
                                   /\ env[j][2] # Undefined
                                   /\ \E p \in {REACT_APP_, NEXT_PUBLIC_, VITE_, PUBLIC_} :
                                         StartsWith(env[j][1], p)}}

\* C17 witness: a resolution with the prefix MY_ over a process.env that
\* holds MY_X and REACT_APP_X has MY_X and not REACT_APP_X
C17_Witness ==
    /\ ResolverCalled
    /\ hasWindow
    /\ resolved.prefix = MY_
    /\ \E i \in 1..Len(env) : env[i][1] = REACT_APP_X /\ env[i][2] # Undefined
    /\ MY_X \in DOMAIN resolved.out
    /\ REACT_APP_X \notin DOMAIN resolved.out

\* C18 as stated, in its part on re-renders: a render of a mounted component
\* that comes after clearEnvCache and finds the cache absent schedules the
\* pass that populates it again.
C18_Original ==
    [][\A c \in Comps :
          (lastOp' = <<"render", c>> /\ c \in clearedSince /\ envCache = Null) =>
              effectPending'[c]]_vars

\* C15: a pass that starts while isLoading is true resolves nothing, writes
\* neither envCache nor a component's state and leaves isLoading as it is;
\* at most one pass is between setting isLoading and resetting it, and
\* isLoading is true exactly while one is.
C15_OnePassInFlight ==
    [][/\ \A c \in Comps :
             (lastOp' = <<"effect-begin", c>> /\ isLoading) =>
                 UNCHANGED <<envCache, envVars, error, isLoading, inFlight>>
       /\ Cardinality(inFlight') <= 1
       /\ isLoading' <=> inFlight' # {}]_vars

\* C15 witness: the pass of a second component has started and ended at
\* once while the pass of the first is in flight
C15_Witness ==
    \E c \in Comps :
        /\ lastOp = <<"effect-begin", c>>
        /\ isLoading
        /\ c \notin inFlight
        /\ inFlight # {}

\* C19: isLoading is false in every state between two operations, after a
\* pass that failed too, and a pass that finds the cache absent and does not
\* fail populates it, whatever passes failed or completed before.
C19_IsLoadingReset ==
    [][/\ ~isLoading
       /\ ~isLoading'
       /\ \A c \in Comps :
             ( /\ lastOp' = <<"effect", c>>
               /\ envCache = Null
               /\ ~GetAllEnvVarsThrows(hasWindow, scanFails)
               /\ ~SpreadThrows(hasWindow, scanFails) ) => envCache' # Null]_vars

\* C19 witness: after a pass of c failed, a pass of d has populated the cache
\* and isLoading is false
C19_Witness ==
    \E c, d \in Comps :
        /\ error[c] = FailedError
        /\ lastOp = <<"effect", d>>
        /\ envCache # Null
        /\ envVars[d] = envCache
        /\ ~isLoading

====
